---- MODULE Spec2Model ----
(***************************************************************************)
(* IntelliRail: the schedule optimizer (RailwayOptimizer, built on the     *)
(* OR-Tools CP-SAT solver) as a state machine.                             *)
(*                                                                         *)
(* One optimization request is taken through optimize_schedule: the model  *)
(* is built (decision variables, platform constraints, train sequence      *)
(* constraints, objective), the solver is run, and the response is         *)
(* extracted.  The solver is external; it is modelled by what it promises: *)
(* OPTIMAL comes with an assignment that satisfies every constraint of the *)
(* model and minimises the objective, FEASIBLE with any assignment that    *)
(* satisfies every constraint, and the other statuses with no assignment.  *)
(*                                                                         *)
(* Movements are numbered 1..n here and 0..n-1 in the Python source.       *)
(*                                                                         *)
(* Spec is one call of optimize_schedule on a request of any shape.        *)
(* ServiceSpec is the API route POST /api/optimize in front of the one     *)
(* module-level optimizer: requests arrive at any time, the event loop     *)
(* runs one handler at a time to its reply, and self.model stays on the    *)
(* optimizer from one request to the next.                                 *)
(*                                                                         *)
(* FairSpec is one call of optimize_schedule under weak fairness.          *)
(* MetricsSpec is the conflict count of the dashboard's MetricsPanel,      *)
(* DashboardSpec the handlers of the FinalDashboard page and their         *)
(* asynchronous replies, LiveSpec the live mode of that page.              *)
(***************************************************************************)
EXTENDS Integers, Sequences, FiniteSets, TLC

VARIABLES
    request,       \* the OptimizationRequest being served
    pc,            \* position in optimize_schedule: received, built, raised, returned
    model,         \* RailwayOptimizer.model (self.model)
    solverStatus,  \* what solver.Solve returned, NOT_RUN before the call
    response,      \* the dict optimize_schedule returned
    raised,        \* the exception optimize_schedule raised, "none" otherwise
    inbox,         \* the requests the clients have still to send to POST /api/optimize
    pending,       \* the requests received whose handler waits for the event loop
    waited,        \* the request being served was received while the service was busy
    served,        \* the exchanges completed: request, solver status and HTTP reply
    dashboard,     \* the React state of the FinalDashboard component
    calls,         \* the asynchronous handlers of the dashboard awaiting a reply
    emergencyTimeout, \* the timer of the mount effect: set, fired or cleared
    mounted,       \* the FinalDashboard component is mounted
    server,        \* what the dashboard's server has produced: scenarios, messages
    metrics        \* MetricsPanel: its props and the conflict count it computed

service == <<inbox, pending, waited, served>>

frontend == <<dashboard, calls, emergencyTimeout, mounted, server, metrics>>

vars == <<request, pc, model, solverStatus, response, raised, inbox, pending, waited, served,
          dashboard, calls, emergencyTimeout, mounted, server, metrics>>

(***************************************************************************)
(* Bounds of the explored requests.                                        *)
(***************************************************************************)
MaxMov == 2          \* movements per request
MaxPlatforms == 2    \* platforms of a station

(***************************************************************************)
(* Program constants.                                                      *)
(***************************************************************************)
MinutesPerHour == 60
MinutesPerDay == 1440
ArrivalMargin == 30        \* max_departure = horizon - 30
time_separation == 15
journey_time == 60
turnaround_time == 20
DefaultWeight == 2         \* PRIORITY_WEIGHT.get(train.priority, 2)

(***************************************************************************)
(* Data model (app/models/train.py).                                       *)
(***************************************************************************)
TrainPriority == [HIGH |-> 3, MEDIUM |-> 2, LOW |-> 1]

TrainIds == {"T1", "T2"}
UnknownTrain == "TX"
StationIds == {"S1", "S2"}
UnknownStation == "SX"

\* Two scheduled departures a quarter of an hour apart, either side of midnight:
\* the earlier one has the larger time of day.
SchedTimes ==
    { [day |-> 0, hour |-> 23, minute |-> 50],
      [day |-> 1, hour |-> 0, minute |-> 5] }

OtherStation(s) == IF s = "S1" THEN "S2" ELSE "S1"

TrainMovement(t, s, sd) ==
    [train_id |-> t, from_station |-> s, to_station |-> OtherStation(s),
     scheduled_departure |-> sd]

SeqsUpTo(S, n) == UNION { [1..k -> S] : k \in 0..n }

OptimizationRequest(tr, st, ms, h) ==
    [trains |-> tr, stations |-> st, movements |-> ms, time_horizon_hours |-> h]

\* request.trains and request.stations as the dicts optimize_schedule makes of
\* them: train id -> priority, station id -> platforms.
TrainDicts ==
    { [t \in TrainIds |-> IF t = "T1" THEN p ELSE "MEDIUM"] : p \in {"HIGH", "LOW"} }

StationDicts ==
    { [s \in StationIds |-> IF s = "S1" THEN n ELSE 1] : n \in 0..MaxPlatforms }

\* time_horizon_hours: no horizon and one hour (departures in 0..30), and two
\* hours (departures in 0..90, the shortest horizon two movements of one train
\* fit in).
ShortHorizons == {0, 1}
ChainHorizons == {2}

\* Requests of any shape, references to unknown trains and stations included,
\* on the short horizons.
GeneralRequests ==
    { OptimizationRequest(tr, st, ms, h) :
        tr \in TrainDicts, st \in StationDicts,
        ms \in SeqsUpTo({ TrainMovement(t, s, sd) :
                            t \in TrainIds \cup {UnknownTrain},
                            s \in StationIds \cup {UnknownStation},
                            sd \in SchedTimes }, MaxMov),
        h \in ShortHorizons }

\* One train's chain of movements on the longer horizon.
ChainRequests ==
    { OptimizationRequest(tr, st, ms, h) :
        tr \in TrainDicts, st \in StationDicts,
        ms \in SeqsUpTo({ TrainMovement("T1", s, sd) :
                            s \in StationIds, sd \in SchedTimes }, MaxMov),
        h \in ChainHorizons }

Requests == GeneralRequests \cup ChainRequests

(***************************************************************************)
(* The CP-SAT model: integer variables with their bounds, boolean          *)
(* variables, constraints and the objective.                               *)
(***************************************************************************)
NoModel == [intVars |-> {}, boolVars |-> {}, constraints |-> {},
            objective |-> <<>>, minimize |-> FALSE, created |-> FALSE]

EmptyModel == [NoModel EXCEPT !.created = TRUE]

\* A literal: the boolean variable of a pair of movements, or its negation.
Always == [pair |-> <<0, 0>>, positive |-> TRUE]
Lit(i, j) == [pair |-> <<i, j>>, positive |-> TRUE]
NotLit(i, j) == [pair |-> <<i, j>>, positive |-> FALSE]

IntVar(kind, i, lb, ub) == [kind |-> kind, idx |-> i, lb |-> lb, ub |-> ub]

\* platform[i] == platform[j], platform[i] != platform[j],
\* departure[i] + c <= departure[j]; each enforced only if its literal holds.
Constraint(op, i, j, c, lit) == [op |-> op, x |-> i, y |-> j, c |-> c, lit |-> lit]

(***************************************************************************)
(* optimize_schedule, up to the call of the solver.                        *)
(***************************************************************************)
horizon(req) == req.time_horizon_hours * MinutesPerHour

min_departure == 0

\* Mutant: the last departure is the end of the horizon, no time left for arrival.
M_max_departure_NoMargin(req) == horizon(req)

max_departure(req) == horizon(req) - ArrivalMargin

Min(S) == CHOOSE x \in S : \A y \in S : x <= y

\* The first movement whose from_station is no key of the stations dict
\* (stations[movement.from_station] raises KeyError there), 0 if there is none.
FirstUnknownStation(req) ==
    LET bad == { i \in 1..Len(req.movements) :
                   req.movements[i].from_station \notin DOMAIN req.stations }
    IN IF bad = {} THEN 0 ELSE Min(bad)

\* The first movement whose train_id is no key of the trains dict
\* (trains[movement.train_id] raises KeyError there), 0 if there is none.
FirstUnknownTrain(req) ==
    LET bad == { i \in 1..Len(req.movements) :
                   req.movements[i].train_id \notin DOMAIN req.trains }
    IN IF bad = {} THEN 0 ELSE Min(bad)

DepartureVar(req, i) == IntVar("departure", i, min_departure, max_departure(req))

PlatformVar(req, i) ==
    IntVar("platform", i, 1, req.stations[req.movements[i].from_station])

\* The variables the loop over the movements has created when it ends or raises:
\* the departure variable of a movement is created before its station is looked up.
DecisionVariables(req) ==
    LET n == Len(req.movements)
        bad == FirstUnknownStation(req)
        lastDeparture == IF bad = 0 THEN n ELSE bad
        lastPlatform == IF bad = 0 THEN n ELSE bad - 1
    IN { DepartureVar(req, i) : i \in 1..lastDeparture }
         \cup { PlatformVar(req, i) : i \in 1..lastPlatform }

\* The pairs idx1 < idx2 of movements grouped under the same station.
StationPairs(movements) ==
    { p \in (1..Len(movements)) \X (1..Len(movements)) :
        /\ p[1] < p[2]
        /\ movements[p[1]].from_station = movements[p[2]].from_station }

\* Mutant: the indicator is defined and no separation is added.
M_PairConstraints_NoSeparation(idx1, idx2) ==
    { Constraint("eq", idx1, idx2, 0, Lit(idx1, idx2)),
      Constraint("ne", idx1, idx2, 0, NotLit(idx1, idx2)) }

\* Mutant: one separation only, the first movement of the pair ahead.
M_PairConstraints_OneDirection(idx1, idx2) ==
    { Constraint("eq", idx1, idx2, 0, Lit(idx1, idx2)),
      Constraint("ne", idx1, idx2, 0, NotLit(idx1, idx2)),
      Constraint("le", idx1, idx2, time_separation, Lit(idx1, idx2)) }

\* What the inner loop adds for one pair: the indicator's two defining
\* constraints, and the two separations, both enforced by the indicator.
PairConstraints(idx1, idx2) ==
    { Constraint("eq", idx1, idx2, 0, Lit(idx1, idx2)),
      Constraint("ne", idx1, idx2, 0, NotLit(idx1, idx2)),
      Constraint("le", idx1, idx2, time_separation, Lit(idx1, idx2)),
      Constraint("le", idx2, idx1, time_separation, Lit(idx1, idx2)) }

add_platform_constraints(movements) ==
    UNION { PairConstraints(p[1], p[2]) : p \in StationPairs(movements) }

\* datetime order of two scheduled departures: the sort key.
SchedKey(sd) == sd.day * MinutesPerDay + sd.hour * MinutesPerHour + sd.minute

\* Mutant: an unstable sort, an index goes before the indices of equal key.
M_InsertByDeparture_Unstable(movements, sorted, i) ==
    LET k == Cardinality({ p \in 1..Len(sorted) :
                SchedKey(movements[sorted[p]].scheduled_departure)
                    < SchedKey(movements[i].scheduled_departure) })
    IN SubSeq(sorted, 1, k) \o <<i>> \o SubSeq(sorted, k + 1, Len(sorted))

\* list.sort(key=...) is stable: an index goes after every index whose key is
\* not greater.
InsertByDeparture(movements, sorted, i) ==
    LET k == Cardinality({ p \in 1..Len(sorted) :
                SchedKey(movements[sorted[p]].scheduled_departure)
                    <= SchedKey(movements[i].scheduled_departure) })
    IN SubSeq(sorted, 1, k) \o <<i>> \o SubSeq(sorted, k + 1, Len(sorted))

RECURSIVE SortByDeparture(_, _)
SortByDeparture(movements, indices) ==
    IF indices = <<>> THEN <<>>
    ELSE InsertByDeparture(movements,
                           SortByDeparture(movements, SubSeq(indices, 1, Len(indices) - 1)),
                           indices[Len(indices)])

\* The indices of a train's movements, in input order.
RECURSIVE IndicesOfTrain(_, _, _)
IndicesOfTrain(movements, train_id, n) ==
    IF n = 0 THEN <<>>
    ELSE IF movements[n].train_id = train_id
         THEN Append(IndicesOfTrain(movements, train_id, n - 1), n)
         ELSE IndicesOfTrain(movements, train_id, n - 1)

movement_indices(movements, train_id) ==
    SortByDeparture(movements, IndicesOfTrain(movements, train_id, Len(movements)))

\* Mutant: the journey time alone, the turnaround forgotten.
M_SequenceConstraint_JourneyOnly(current_idx, next_idx) ==
    Constraint("le", current_idx, next_idx, journey_time, Always)

SequenceConstraint(current_idx, next_idx) ==
    Constraint("le", current_idx, next_idx, journey_time + turnaround_time, Always)

\* Mutant: no sequencing constraint is added.
M_add_train_sequence_constraints_None(movements) == {}

add_train_sequence_constraints(movements) ==
    UNION { { SequenceConstraint(movement_indices(movements, t)[k],
                                 movement_indices(movements, t)[k + 1]) :
                k \in 1..(Len(movement_indices(movements, t)) - 1) } :
            t \in { movements[i].train_id : i \in 1..Len(movements) } }

scheduled_minutes(movement) ==
    movement.scheduled_departure.hour * MinutesPerHour
        + movement.scheduled_departure.minute

\* The priority weights: the table the objective looks the priority up in.
PRIORITY_WEIGHT == [HIGH |-> 3, MEDIUM |-> 2, LOW |-> 1]

\* Mutant: no priority class weighs anything.
M_Weight_Zero(priority) == 0

Weight(priority) ==
    IF priority \in DOMAIN PRIORITY_WEIGHT THEN PRIORITY_WEIGHT[priority]
    ELSE DefaultWeight

\* Mutant: the delay is not weighted by the priority.
M_ObjectiveTerm_Unweighted(req, i) ==
    [weight |-> 1, idx |-> i,
     scheduled_minutes |-> scheduled_minutes(req.movements[i])]

\* objective_terms: weight * (departure_times[i] - scheduled_minutes).
ObjectiveTerm(req, i) ==
    [weight |-> Weight(req.trains[req.movements[i].train_id]),
     idx |-> i,
     scheduled_minutes |-> scheduled_minutes(req.movements[i])]

set_objective(req) == [i \in 1..Len(req.movements) |-> ObjectiveTerm(req, i)]

\* self.model once the variables and both families of constraints are added.
ConstrainedModel(req) ==
    [intVars |-> DecisionVariables(req),
     boolVars |-> StationPairs(req.movements),
     constraints |-> add_platform_constraints(req.movements)
                        \cup add_train_sequence_constraints(req.movements),
     objective |-> <<>>,
     minimize |-> FALSE,
     created |-> TRUE]

\* self.model when optimize_schedule reaches the solver.
BuiltModel(req) ==
    [ConstrainedModel(req) EXCEPT !.objective = set_objective(req), !.minimize = TRUE]

(***************************************************************************)
(* The solver.  An assignment gives every departure and platform variable  *)
(* a value of its domain; it is a solution when some valuation of the      *)
(* boolean variables makes every constraint hold.                          *)
(***************************************************************************)
NumMovements(m) == Cardinality({ v \in m.intVars : v.kind = "departure" })

VarOf(m, kind, i) == CHOOSE v \in m.intVars : v.kind = kind /\ v.idx = i

DomainOf(m, kind, i) == VarOf(m, kind, i).lb .. VarOf(m, kind, i).ub

Enforced(c, same) == c.lit = Always \/ same[c.lit.pair] = c.lit.positive

KindOf(c) == IF c.op = "le" THEN "departure" ELSE "platform"

HoldsOn(c, vals) ==
    CASE c.op = "eq" -> vals[c.x] = vals[c.y]
      [] c.op = "ne" -> vals[c.x] # vals[c.y]
      [] c.op = "le" -> vals[c.x] + c.c <= vals[c.y]

EnforcedOf(m, kind, same) ==
    { c \in m.constraints : KindOf(c) = kind /\ Enforced(c, same) }

\* The values of variable i no enforced separation rules out on the bounds of
\* the other variable alone: x + c <= y needs y >= lb(x) + c and x <= ub(y) - c.
\* No solution has a value outside of it.
PrunedDomain(m, kind, cs, i) ==
    { v \in DomainOf(m, kind, i) :
        \A c \in cs :
           /\ (c.op = "le" /\ c.y = i) => v >= VarOf(m, kind, c.x).lb + c.c
           /\ (c.op = "le" /\ c.x = i) => v <= VarOf(m, kind, c.y).ub - c.c }

\* The values of the variables 1..k of one kind that satisfy every constraint
\* of cs among them.
RECURSIVE Extend(_, _, _, _)
Extend(m, kind, cs, k) ==
    IF k = 0 THEN { <<>> }
    ELSE LET last == { c \in cs : (IF c.x > c.y THEN c.x ELSE c.y) = k }
             dom == PrunedDomain(m, kind, cs, k)
         IN IF dom = {} THEN {}
            ELSE { a \in { Append(p, v) : p \in Extend(m, kind, cs, k - 1), v \in dom } :
                     \A c \in last : HoldsOn(c, a) }

Assignments(m, kind, same) ==
    Extend(m, kind, EnforcedOf(m, kind, same), NumMovements(m))

\* The solutions under one valuation of the boolean variables.
SolutionsUnder(m, same) ==
    LET platforms == Assignments(m, "platform", same)
    IN IF platforms = {} THEN {}
       ELSE { [departure_times |-> d, platform_assignments |-> p] :
                d \in Assignments(m, "departure", same), p \in platforms }

Solutions(m) == UNION { SolutionsUnder(m, same) : same \in [m.boolVars -> BOOLEAN] }

RECURSIVE SumTerms(_, _, _)
SumTerms(terms, departure_times, k) ==
    IF k = 0 THEN 0
    ELSE SumTerms(terms, departure_times, k - 1)
           + terms[k].weight * (departure_times[terms[k].idx] - terms[k].scheduled_minutes)

\* solver.ObjectiveValue() of an assignment.
ObjectiveValue(m, sol) == SumTerms(m.objective, sol.departure_times, Len(m.objective))

\* Mutant: the solver stops at any solution and calls it optimal.
M_OptimalSolutions_Any(m) == Solutions(m)

\* The solutions no other solution has a smaller objective value than.
OptimalSolutions(m) ==
    LET sols == Solutions(m)
        values == { ObjectiveValue(m, s) : s \in sols }
        best == CHOOSE v \in values : \A w \in values : v <= w
    IN IF sols = {} THEN {} ELSE { s \in sols : ObjectiveValue(m, s) = best }

HasEmptyDomain(m) == \E v \in m.intVars : v.lb > v.ub

(***************************************************************************)
(* _extract_solution.                                                      *)
(***************************************************************************)
\* base_time + timedelta(minutes=departure_minutes), base_time the midnight
\* of the scheduled day.
actual_departure(movement, departure_minutes) ==
    [day |-> movement.scheduled_departure.day + (departure_minutes \div MinutesPerDay),
     hour |-> (departure_minutes % MinutesPerDay) \div MinutesPerHour,
     minute |-> departure_minutes % MinutesPerHour]

\* datetime.isoformat(): the text 'YYYY-MM-DDTHH:MM:SS', as the sequence of its
\* date, hour and minute fields.
isoformat(dt) == <<dt.day, dt.hour, dt.minute>>

\* Mutant: an early departure is reported as no delay.
M_delay_minutes_Clamped(movement, departure_minutes) ==
    LET d == departure_minutes
               - (movement.scheduled_departure.hour * MinutesPerHour
                    + movement.scheduled_departure.minute)
    IN IF d < 0 THEN 0 ELSE d

delay_minutes(movement, departure_minutes) ==
    departure_minutes
      - (movement.scheduled_departure.hour * MinutesPerHour
           + movement.scheduled_departure.minute)

solution_movement(movement, departure_minutes, platform) ==
    [train_id |-> movement.train_id,
     from_station |-> movement.from_station,
     to_station |-> movement.to_station,
     scheduled_departure |-> isoformat(movement.scheduled_departure),
     optimized_departure |-> isoformat(actual_departure(movement, departure_minutes)),
     platform |-> platform,
     delay_minutes |-> delay_minutes(movement, departure_minutes)]

SolutionStatus(status) == "optimal"

\* Mutant: the records are emitted last movement first.
M_extract_solution_Reversed(movements, m, sol, status) ==
    [keys |-> {"status", "objective_value", "movements"},
     status |-> SolutionStatus(status),
     objective_value |-> ObjectiveValue(m, sol),
     movements |-> [i \in 1..Len(movements) |->
                      solution_movement(movements[Len(movements) + 1 - i],
                                        sol.departure_times[Len(movements) + 1 - i],
                                        sol.platform_assignments[Len(movements) + 1 - i])]]

extract_solution(movements, m, sol, status) ==
    [keys |-> {"status", "objective_value", "movements"},
     status |-> SolutionStatus(status),
     objective_value |-> ObjectiveValue(m, sol),
     movements |-> [i \in 1..Len(movements) |->
                      solution_movement(movements[i], sol.departure_times[i],
                                        sol.platform_assignments[i])]]

NoSolutionResponse ==
    [keys |-> {"status", "message"}, status |-> "infeasible",
     message |-> "No solution found"]

(***************************************************************************)
(* The dashboard (FinalDashboard) and its metrics panel, before they are   *)
(* used.  A data set is named by a number: 0 is the empty arrays, k the    *)
(* k-th scenario the server generated.  Movements computed from data set k *)
(* are <<k>>, no movements <<>>.                                           *)
(***************************************************************************)
null == <<>>

\* The useState defaults.
InitialState ==
    [trains |-> 0, stations |-> 0, movements |-> 0,
     optimizedMovements |-> <<>>, optimizationResult |-> null,
     isOptimized |-> FALSE, isOptimizing |-> FALSE, loading |-> TRUE,
     error |-> <<>>, scenarios |-> "none", selectedScenario |-> "normal",
     isSimulating |-> FALSE, realTimeUpdates |-> <<>>, activeTab |-> "overview"]

NotComputed == -1

\* The panel before it is rendered: no props, nothing computed.
NoMetrics ==
    [movements |-> <<>>, stations |-> <<>>, initial_conflicts |-> NotComputed]

\* No page is open.
FrontendAtRest ==
    /\ dashboard = InitialState
    /\ calls = {}
    /\ emergencyTimeout = "cleared"
    /\ mounted = FALSE
    /\ server = [generated |-> 0, sent |-> 0]
    /\ metrics = NoMetrics

Init ==
    /\ request \in Requests
    /\ pc = "received"
    /\ model = NoModel
    /\ solverStatus = "NOT_RUN"
    /\ response = [keys |-> {}]
    /\ raised = "none"
    /\ inbox = <<>>
    /\ pending = <<>>
    /\ waited = FALSE
    /\ served = <<>>
    /\ FrontendAtRest

\* Mutant: one CpModel is kept on the optimizer and every request adds to it.
M_BuildModel_Accumulates ==
    /\ pc = "received"
    /\ FirstUnknownStation(request) = 0
    /\ FirstUnknownTrain(request) = 0
    /\ model' = [BuiltModel(request) EXCEPT
                    !.intVars = @ \cup model.intVars,
                    !.boolVars = @ \cup model.boolVars,
                    !.constraints = @ \cup model.constraints]
    /\ pc' = "built"
    /\ UNCHANGED <<request, solverStatus, response, raised>>
    /\ UNCHANGED service
    /\ UNCHANGED frontend

\* Mutant: a complete model left by an earlier request of as many movements is
\* solved again in place of the request's own.
M_BuildModel_Cached ==
    /\ pc = "received"
    /\ FirstUnknownStation(request) = 0
    /\ FirstUnknownTrain(request) = 0
    /\ model' = IF model.minimize /\ Len(model.objective) = Len(request.movements)
                THEN model ELSE BuiltModel(request)
    /\ pc' = "built"
    /\ UNCHANGED <<request, solverStatus, response, raised>>
    /\ UNCHANGED service
    /\ UNCHANGED frontend

\* Every station and train resolves: the model is built and the solver is next.
BuildModel ==
    /\ pc = "received"
    /\ FirstUnknownStation(request) = 0
    /\ FirstUnknownTrain(request) = 0
    /\ model' = BuiltModel(request)
    /\ pc' = "built"
    /\ UNCHANGED <<request, solverStatus, response, raised>>
    /\ UNCHANGED service
    /\ UNCHANGED frontend

\* stations[movement.from_station] raises in the loop that creates the variables.
RaiseUnknownStation ==
    /\ pc = "received"
    /\ FirstUnknownStation(request) # 0
    /\ model' = [EmptyModel EXCEPT !.intVars = DecisionVariables(request)]
    /\ raised' = "KeyError"
    /\ pc' = "raised"
    /\ UNCHANGED <<request, solverStatus, response>>
    /\ UNCHANGED service
    /\ UNCHANGED frontend

\* Mutant: the failed lookup is swallowed and answered as an infeasible request.
M_RaiseUnknownTrain_Swallowed ==
    /\ pc = "received"
    /\ FirstUnknownStation(request) = 0
    /\ FirstUnknownTrain(request) # 0
    /\ model' = ConstrainedModel(request)
    /\ response' = NoSolutionResponse
    /\ pc' = "returned"
    /\ UNCHANGED <<request, solverStatus, raised>>
    /\ UNCHANGED service
    /\ UNCHANGED frontend

\* trains[movement.train_id] raises in _set_objective, after the variables and
\* the constraints were added and before Minimize.
RaiseUnknownTrain ==
    /\ pc = "received"
    /\ FirstUnknownStation(request) = 0
    /\ FirstUnknownTrain(request) # 0
    /\ model' = ConstrainedModel(request)
    /\ raised' = "KeyError"
    /\ pc' = "raised"
    /\ UNCHANGED <<request, solverStatus, response>>
    /\ UNCHANGED service
    /\ UNCHANGED frontend

\* solver.Solve ends OPTIMAL or FEASIBLE and the solution is extracted and returned.
SolveFound ==
    /\ pc = "built"
    /\ \E status \in {"OPTIMAL", "FEASIBLE"} :
         \E sol \in (IF status = "OPTIMAL" THEN OptimalSolutions(model)
                     ELSE Solutions(model)) :
            /\ solverStatus' = status
            /\ response' = extract_solution(request.movements, model, sol, status)
    /\ pc' = "returned"
    /\ UNCHANGED <<request, model, raised>>
    /\ UNCHANGED service
    /\ UNCHANGED frontend

\* Mutant: no assignment is reported by raising an exception.
M_SolveNotFound_Raises ==
    /\ pc = "built"
    /\ \E status \in {"INFEASIBLE", "MODEL_INVALID", "UNKNOWN"} :
         /\ status = "INFEASIBLE" => Solutions(model) = {}
         /\ status = "MODEL_INVALID" => HasEmptyDomain(model)
         /\ solverStatus' = status
    /\ raised' = "InfeasibleError"
    /\ pc' = "raised"
    /\ UNCHANGED <<request, model, response>>
    /\ UNCHANGED service
    /\ UNCHANGED frontend

\* Mutant: the status is not looked at and the solution is extracted all the
\* same, every variable read as 0.
M_SolveNotFound_Extracts ==
    /\ pc = "built"
    /\ \E status \in {"INFEASIBLE", "MODEL_INVALID", "UNKNOWN"} :
         /\ status = "INFEASIBLE" => Solutions(model) = {}
         /\ status = "MODEL_INVALID" => HasEmptyDomain(model)
         /\ solverStatus' = status
         /\ response' = extract_solution(request.movements, model,
                            [departure_times |-> [i \in 1..Len(request.movements) |-> 0],
                             platform_assignments |-> [i \in 1..Len(request.movements) |-> 0]],
                            status)
    /\ pc' = "returned"
    /\ UNCHANGED <<request, model, raised>>
    /\ UNCHANGED service
    /\ UNCHANGED frontend

\* Mutant: a run that ends with no assignment is followed by another run.
M_SolveNotFound_Retries ==
    /\ pc = "built"
    /\ \E status \in {"INFEASIBLE", "MODEL_INVALID", "UNKNOWN"} :
         /\ status = "INFEASIBLE" => Solutions(model) = {}
         /\ status = "MODEL_INVALID" => HasEmptyDomain(model)
         /\ solverStatus' = status
    /\ UNCHANGED <<request, model, response, raised, pc>>
    /\ UNCHANGED service
    /\ UNCHANGED frontend

\* solver.Solve ends with no assignment: the model has none (INFEASIBLE), is
\* refused (MODEL_INVALID: a variable with an empty domain), or the time limit
\* ran out first (UNKNOWN).
SolveNotFound ==
    /\ pc = "built"
    /\ \E status \in {"INFEASIBLE", "MODEL_INVALID", "UNKNOWN"} :
         /\ status = "INFEASIBLE" => Solutions(model) = {}
         /\ status = "MODEL_INVALID" => HasEmptyDomain(model)
         /\ solverStatus' = status
    /\ response' = NoSolutionResponse
    /\ pc' = "returned"
    /\ UNCHANGED <<request, model, raised>>
    /\ UNCHANGED service
    /\ UNCHANGED frontend

Next ==
    \/ BuildModel
    \/ RaiseUnknownStation
    \/ RaiseUnknownTrain
    \/ SolveFound
    \/ SolveNotFound

Spec == Init /\ [][Next]_vars


(***************************************************************************)
(* The service (app/main.py): POST /api/optimize in front of the one       *)
(* module-level optimizer.  The route is a coroutine that calls            *)
(* optimizer.optimize_schedule with no await on the way, so the event loop *)
(* runs a handler from its first line to its reply before it starts the    *)
(* next; a request that arrives meanwhile waits.                           *)
(***************************************************************************)
\* The requests of the service runs, on a one-hour horizon: one movement, two
\* movements of one train (more than the horizon holds), a movement of an
\* unknown station, a movement of an unknown train.
ServiceMovements ==
    LET early == [day |-> 1, hour |-> 0, minute |-> 5]
        late == [day |-> 0, hour |-> 23, minute |-> 50]
    IN { <<TrainMovement("T1", "S1", early)>>,
         <<TrainMovement("T1", "S1", early), TrainMovement("T1", "S2", late)>>,
         <<TrainMovement("T1", UnknownStation, early)>>,
         <<TrainMovement(UnknownTrain, "S1", early)>> }

ServiceRequests ==
    { OptimizationRequest(tr, st, ms, h) :
        tr \in TrainDicts,
        st \in { d \in StationDicts : d["S1"] \in {1, MaxPlatforms} },
        ms \in ServiceMovements,
        h \in ShortHorizons \ {0} }

\* What the clients send: two requests, in the order they arrive.
ServiceInboxes == [1..2 -> ServiceRequests]

\* A completed exchange: the request, the solver status of its run and the
\* HTTP reply.
Exchange(status_code, body) ==
    [request |-> request, waited |-> waited, solverStatus |-> solverStatus,
     status_code |-> status_code, body |-> body]

\* str(e) of the KeyError: the key that was looked up.
KeyErrorText(req) ==
    IF FirstUnknownStation(req) # 0
    THEN req.movements[FirstUnknownStation(req)].from_station
    ELSE req.movements[FirstUnknownTrain(req)].train_id

\* HTTPException(status_code=500, detail=f"Optimization failed: {str(e)}").
FailureBody(req) ==
    [keys |-> {"detail"}, detail |-> <<"Optimization failed", KeyErrorText(req)>>]

ServiceInit ==
    /\ \E arriving \in ServiceInboxes :
          /\ request = arriving[1]
          /\ inbox = Tail(arriving)
    /\ pc = "received"
    /\ model = NoModel
    /\ solverStatus = "NOT_RUN"
    /\ response = [keys |-> {}]
    /\ raised = "none"
    /\ pending = <<>>
    /\ waited = FALSE
    /\ served = <<>>
    /\ FrontendAtRest

\* A request arrives: its handler is queued on the event loop, behind the
\* handler that is running if there is one.
Receive ==
    /\ inbox # <<>>
    /\ pending' = Append(pending, [request |-> Head(inbox),
                                   waited |-> (pc # "replied" \/ pending # <<>>)])
    /\ inbox' = Tail(inbox)
    /\ UNCHANGED <<request, pc, model, solverStatus, response, raised, waited, served>>
    /\ UNCHANGED frontend

\* The event loop starts the next handler: a new call of optimize_schedule on
\* the same optimizer, whose model attribute is what the last call left.
Accept ==
    /\ pc = "replied"
    /\ pending # <<>>
    /\ request' = Head(pending).request
    /\ waited' = Head(pending).waited
    /\ pending' = Tail(pending)
    /\ pc' = "received"
    /\ solverStatus' = "NOT_RUN"
    /\ response' = [keys |-> {}]
    /\ raised' = "none"
    /\ UNCHANGED <<model, inbox, served>>
    /\ UNCHANGED frontend

\* The route returns the result of optimize_schedule: HTTP 200 with the dict.
Respond ==
    /\ pc = "returned"
    /\ served' = Append(served, Exchange(200, response))
    /\ pc' = "replied"
    /\ UNCHANGED <<request, model, solverStatus, response, raised, inbox, pending, waited>>
    /\ UNCHANGED frontend

\* Mutant: an exception is answered as a request that has no solution.
M_RespondFailure_AsInfeasible ==
    /\ pc = "raised"
    /\ served' = Append(served, Exchange(200, NoSolutionResponse))
    /\ pc' = "replied"
    /\ UNCHANGED <<request, model, solverStatus, response, raised, inbox, pending, waited>>
    /\ UNCHANGED frontend

\* The route catches the exception and raises HTTPException: HTTP 500.
RespondFailure ==
    /\ pc = "raised"
    /\ served' = Append(served, Exchange(500, FailureBody(request)))
    /\ pc' = "replied"
    /\ UNCHANGED <<request, model, solverStatus, response, raised, inbox, pending, waited>>
    /\ UNCHANGED frontend

ServiceNext ==
    \/ BuildModel
    \/ RaiseUnknownStation
    \/ RaiseUnknownTrain
    \/ SolveFound
    \/ SolveNotFound
    \/ Receive
    \/ Accept
    \/ Respond
    \/ RespondFailure

ServiceSpec == ServiceInit /\ [][ServiceNext]_vars

(***************************************************************************)
(* One call of optimize_schedule to its end.  The method is straight-line  *)
(* code over finite loops and solver.Solve returns within                  *)
(* max_time_in_seconds, so a call that can take a step takes it.           *)
(***************************************************************************)
FairInit ==
    /\ request \in ServiceRequests
    /\ pc = "received"
    /\ model = NoModel
    /\ solverStatus = "NOT_RUN"
    /\ response = [keys |-> {}]
    /\ raised = "none"
    /\ inbox = <<>>
    /\ pending = <<>>
    /\ waited = FALSE
    /\ served = <<>>
    /\ FrontendAtRest

FairSpec == FairInit /\ [][Next]_vars /\ WF_vars(Next)

(***************************************************************************)
(* The optimizer and its service with no request to serve: the state the   *)
(* pages of the dashboard are explored in.                                 *)
(***************************************************************************)
engine == <<request, pc, model, solverStatus, response, raised>>

NoRequest == OptimizationRequest(<<>>, <<>>, <<>>, 0)

BackendAtRest ==
    /\ request = NoRequest
    /\ pc = "replied"
    /\ model = NoModel
    /\ solverStatus = "NOT_RUN"
    /\ response = [keys |-> {}]
    /\ raised = "none"
    /\ inbox = <<>>
    /\ pending = <<>>
    /\ waited = FALSE
    /\ served = <<>>

(***************************************************************************)
(* MetricsPanel (components/MetricsPanel.tsx): the conflict count the      *)
(* panel shows for the movements and stations it is given.  The count adds *)
(* two kinds of conflict: two movements of a station on one platform       *)
(* within an hour of each other, and more movements of a station in one    *)
(* scheduled hour than the station has platforms.                          *)
(***************************************************************************)
MaxDepartures == 3   \* movements handed to the panel

\* A TrainMovement as the panel reads it.
PanelMovement(s, p, h, d) ==
    [from_station |-> s, platform |-> p, scheduled_departure_hour |-> h,
     delay_minutes |-> d]

\* Two stations, two platforms, two scheduled hours, on time or 90 minutes late.
PanelMovements ==
    { PanelMovement(s, p, h, d) :
        s \in StationIds, p \in 1..2, h \in {8, 9}, d \in {0, 90} }

\* The stations prop, station id -> platforms: S1 is listed, S2 is not.
PanelStations == { [s \in {"S1"} |-> n] : n \in 1..MaxPlatforms }

\* stationGroups[stationId]: the movements from the station, in their order.
stationGroup(movements, stationId) ==
    SelectSeq(movements, LAMBDA m : m.from_station = stationId)

Abs(x) == IF x < 0 THEN -x ELSE x

\* scheduled_departure_hour + delay_minutes / 60, in minutes.
departure(m) == m.scheduled_departure_hour * MinutesPerHour + m.delay_minutes

\* The same platform, departures within one hour of each other.
SamePlatformConflict(movement1, movement2) ==
    /\ movement1.platform = movement2.platform
    /\ Abs(departure(movement1) - departure(movement2)) <= MinutesPerHour

\* The movements of the station scheduled in movement1's hour.
sameHourCount(stationMovements, movement1) ==
    Len(SelectSeq(stationMovements,
                  LAMBDA m : m.scheduled_departure_hour =
                             movement1.scheduled_departure_hour))

\* The pair departs in one hour from a listed station that has fewer
\* platforms than movements in that hour.
CapacityConflict(stationMovements, stations, stationId, movement1, movement2) ==
    /\ movement1.scheduled_departure_hour = movement2.scheduled_departure_hour
    /\ stationId \in DOMAIN stations
    /\ sameHourCount(stationMovements, movement1) > stations[stationId]

\* The loop over j for one i, from j on: what it adds to conflicts, and how
\* much of that for capacity.  A capacity conflict is counted and the loop
\* over j is left (break).
RECURSIVE InnerLoop(_, _, _, _, _)
InnerLoop(stationMovements, stations, stationId, i, j) ==
    IF j > Len(stationMovements)
    THEN [conflicts |-> 0, capacity |-> 0]
    ELSE LET same == IF SamePlatformConflict(stationMovements[i], stationMovements[j])
                     THEN 1 ELSE 0
         IN IF CapacityConflict(stationMovements, stations, stationId,
                                stationMovements[i], stationMovements[j])
            THEN [conflicts |-> same + 1, capacity |-> 1]
            ELSE LET rest == InnerLoop(stationMovements, stations, stationId, i, j + 1)
                 IN [conflicts |-> same + rest.conflicts, capacity |-> rest.capacity]

\* The loop over i, from i on.
RECURSIVE OuterLoop(_, _, _, _)
OuterLoop(stationMovements, stations, stationId, i) ==
    IF i > Len(stationMovements)
    THEN 0
    ELSE InnerLoop(stationMovements, stations, stationId, i, i + 1).conflicts
         + OuterLoop(stationMovements, stations, stationId, i + 1)

\* Object.entries(stationGroups).forEach over the station ids left to visit.
RECURSIVE ForEachStation(_, _, _)
ForEachStation(movements, stations, stationIds) ==
    IF stationIds = {}
    THEN 0
    ELSE LET stationId == CHOOSE s \in stationIds : TRUE
         IN OuterLoop(stationGroup(movements, stationId), stations, stationId, 1)
            + ForEachStation(movements, stations, stationIds \ {stationId})

calculatePlatformConflicts(movements, stations) ==
    ForEachStation(movements, stations,
                   { movements[k].from_station : k \in DOMAIN movements })

\* How many times the loops count a capacity conflict for the station and
\* the scheduled hour.
capacityConflicts(movements, stations, stationId, hour) ==
    LET stationMovements == stationGroup(movements, stationId)
    IN Cardinality({ i \in DOMAIN stationMovements :
                       /\ stationMovements[i].scheduled_departure_hour = hour
                       /\ InnerLoop(stationMovements, stations, stationId, i, i + 1).capacity = 1 })

\* The panel is rendered with any movements and stations.
MetricsInit ==
    /\ BackendAtRest
    /\ dashboard = InitialState
    /\ calls = {}
    /\ emergencyTimeout = "cleared"
    /\ mounted = FALSE
    /\ server = [generated |-> 0, sent |-> 0]
    /\ metrics \in [movements : SeqsUpTo(PanelMovements, MaxDepartures),
                    stations : PanelStations,
                    initial_conflicts : {NotComputed}]

\* calculateInitialMetrics: the conflict count of the props.
calculateInitialMetrics ==
    /\ metrics.initial_conflicts = NotComputed
    /\ metrics' = [metrics EXCEPT !.initial_conflicts =
                      calculatePlatformConflicts(metrics.movements, metrics.stations)]
    /\ UNCHANGED <<engine, service, dashboard, calls, emergencyTimeout, mounted, server>>

MetricsSpec == MetricsInit /\ [][calculateInitialMetrics]_vars

(***************************************************************************)
(* FinalDashboard: the page of the dashboard.  Its handlers are coroutines *)
(* of the browser's event loop: a handler runs from its first line to its  *)
(* first await, the reply it awaits comes at any later time, and the rest  *)
(* of the handler then runs to its end; the state updates of one run are   *)
(* applied together.  A handler reads trains, stations and movements of    *)
(* the render it was called in, so a call keeps the data it started with.  *)
(* While loading is true the page shows the spinner and offers no control. *)
(***************************************************************************)
MaxLoads == 2      \* scenarios the server generates
MaxCalls == 2      \* handlers awaiting a reply at one time
MaxMessages == 12  \* messages the simulation socket delivers

KeptUpdates == 10  \* prev.slice(-10)

ScenarioTypes == {"normal", "rush_hour"}

Tabs == {"overview", "analytics", "assistant", "whatif"}

backstage == <<engine, service, metrics>>

\* The error messages.
TooLong == <<"Loading took too long. Some features may not work properly.">>
BackendUnreachable ==
    <<"Failed to connect to backend. Please ensure the server is running.">>
LoadFailed(scenarioType) == <<"Failed to load scenario", scenarioType>>
AdvancedFailed(message) == <<"Advanced Optimization failed", message>>
CheckConnection == <<"Optimization failed. Check backend connection.">>

\* A handler awaiting its reply, with the data of the render it was called in.
\* initial: the call is part of the initialization of the mount effect.
Call(op, scenarioType, initial) ==
    [op |-> op, scenarioType |-> scenarioType, initial |-> initial,
     trains |-> dashboard.trains, stations |-> dashboard.stations,
     movements |-> dashboard.movements]

\* What the server answers an optimization: HTTP 500, or HTTP 200 with the
\* status tag of the engine ("optimal" with the movements, "infeasible" with
\* its message) or with the tag the handlers test for ("success").
Reply(ok, status, message) == [ok |-> ok, status |-> status, message |-> message]

Replies ==
    { Reply(FALSE, "none", "none"),
      Reply(TRUE, "optimal", "none"),
      Reply(TRUE, "infeasible", "No solution found"),
      Reply(TRUE, "success", "none") }

\* result.message || 'Unknown optimization error'
MessageOf(reply) ==
    IF reply.message = "none" THEN "Unknown optimization error" ELSE reply.message

\* setTrains, setStations, setMovements with the arrays of one data set.
WithData(state, k) == [state EXCEPT !.trains = k, !.stations = k, !.movements = k]

\* Mutant: a loaded scenario leaves the optimization result in place.
M_ScenarioLoaded_KeepsResult(state, scenarioType, k) ==
    [WithData(state, k) EXCEPT !.selectedScenario = scenarioType,
                               !.isOptimized = FALSE,
                               !.loading = FALSE]

\* loadScenarioData, the reply is ok: the data of the scenario, not optimized.
ScenarioLoaded(state, scenarioType, k) ==
    [WithData(state, k) EXCEPT !.selectedScenario = scenarioType,
                               !.isOptimized = FALSE,
                               !.optimizationResult = null,
                               !.loading = FALSE]

\* loadScenarioData, catch: the message and empty arrays.
ScenarioFailed(state, scenarioType) ==
    [WithData(state, 0) EXCEPT !.error = LoadFailed(scenarioType),
                               !.loading = FALSE]

\* The optimized state: the movements of the reply, which the server has
\* computed from the data the call sent.
Optimized(state, c) ==
    [state EXCEPT !.optimizedMovements = <<c.movements>>,
                  !.optimizationResult = <<c.movements>>,
                  !.isOptimized = TRUE]

\* prev.slice(-n): the last n elements, all of them if there are fewer.
slice(prev, n) ==
    SubSeq(prev, IF Len(prev) > n THEN Len(prev) - n + 1 ELSE 1, Len(prev))

\* The mount effect has run: initializeApp has called loadScenarios, which
\* awaits GET /api/scenarios, and the emergency timeout is set.
DashboardInit ==
    /\ BackendAtRest
    /\ metrics = NoMetrics
    /\ dashboard = InitialState
    /\ calls = { [op |-> "loadScenarios", scenarioType |-> "normal", initial |-> TRUE,
                  trains |-> 0, stations |-> 0, movements |-> 0] }
    /\ emergencyTimeout = "set"
    /\ mounted = TRUE
    /\ server = [generated |-> 0, sent |-> 0]

\* loadScenarios after its await: the scenarios are listed and
\* loadScenarioData('normal') is called and awaited; or the list is empty; or
\* the request failed and the fallback is set.
loadScenariosReplied ==
    /\ mounted
    /\ \E c \in calls, reply \in {"listed", "empty", "failed"} :
          /\ c.op = "loadScenarios"
          /\ CASE reply = "listed" ->
                    /\ dashboard' = [dashboard EXCEPT !.scenarios = "listed",
                                                      !.error = <<>>]
                    /\ calls' = (calls \ {c}) \cup {[c EXCEPT !.op = "loadScenarioData"]}
               [] reply = "empty" ->
                    /\ dashboard' = [dashboard EXCEPT !.scenarios = "empty",
                                                      !.loading = FALSE]
                    /\ calls' = calls \ {c}
               [] reply = "failed" ->
                    /\ dashboard' = [WithData(dashboard, 0) EXCEPT
                                        !.error = BackendUnreachable,
                                        !.scenarios = "fallback",
                                        !.loading = FALSE]
                    /\ calls' = calls \ {c}
    /\ UNCHANGED <<emergencyTimeout, mounted, server>>
    /\ UNCHANGED backstage

\* The scenario selector: loadScenarioData(scenarioType) up to its await.
loadScenarioData ==
    /\ mounted
    /\ ~dashboard.loading
    /\ ~dashboard.isOptimizing
    /\ dashboard.scenarios = "listed"
    /\ Cardinality(calls) < MaxCalls
    /\ server.generated + Cardinality({ c \in calls : c.op = "loadScenarioData" }) < MaxLoads
    /\ \E scenarioType \in ScenarioTypes \ {dashboard.selectedScenario} :
          /\ dashboard' = [dashboard EXCEPT !.error = <<>>]
          /\ calls' = calls \cup {Call("loadScenarioData", scenarioType, FALSE)}
    /\ UNCHANGED <<emergencyTimeout, mounted, server>>
    /\ UNCHANGED backstage

\* loadScenarioData after its await; loadScenarios, if it awaits the call,
\* then ends with setLoading(false) as well.
loadScenarioDataReplied ==
    /\ mounted
    /\ \E c \in calls, ok \in BOOLEAN :
          /\ c.op = "loadScenarioData"
          /\ IF ok
             THEN /\ dashboard' = ScenarioLoaded(dashboard, c.scenarioType,
                                                 server.generated + 1)
                  /\ server' = [server EXCEPT !.generated = @ + 1]
             ELSE /\ dashboard' = ScenarioFailed(dashboard, c.scenarioType)
                  /\ UNCHANGED server
          /\ calls' = calls \ {c}
    /\ UNCHANGED <<emergencyTimeout, mounted>>
    /\ UNCHANGED backstage

\* The button 'Run Advanced AI': runAdvancedOptimization up to its await.
runAdvancedOptimization ==
    /\ mounted
    /\ ~dashboard.loading
    /\ ~dashboard.isOptimizing
    /\ dashboard.trains # 0
    /\ Cardinality(calls) < MaxCalls
    /\ IF dashboard.trains = 0 \/ dashboard.stations = 0 \/ dashboard.movements = 0
       THEN /\ dashboard' = [dashboard EXCEPT
                                !.error = AdvancedFailed("No data available. Load a scenario first."),
                                !.isOptimizing = FALSE]
            /\ UNCHANGED calls
       ELSE /\ dashboard' = [dashboard EXCEPT !.isOptimizing = TRUE, !.error = <<>>]
            /\ calls' = calls \cup {Call("runAdvancedOptimization", "none", FALSE)}
    /\ UNCHANGED <<emergencyTimeout, mounted, server>>
    /\ UNCHANGED backstage

\* runAdvancedOptimization after its await, for one call and one reply.
AdvancedReplied(c, reply) ==
    /\ mounted
    /\ c \in calls
    /\ c.op = "runAdvancedOptimization"
    /\ dashboard' =
          IF ~reply.ok
          THEN [dashboard EXCEPT !.error = AdvancedFailed("HTTP 500"),
                                 !.isOptimizing = FALSE]
          ELSE IF reply.status # "success"
          THEN [dashboard EXCEPT !.error = AdvancedFailed(MessageOf(reply)),
                                 !.isOptimizing = FALSE]
          ELSE [Optimized(dashboard, c) EXCEPT !.isOptimizing = FALSE]
    /\ calls' = calls \ {c}
    /\ UNCHANGED <<emergencyTimeout, mounted, server>>
    /\ UNCHANGED backstage

runAdvancedOptimizationReplied ==
    \E c \in calls, reply \in Replies : AdvancedReplied(c, reply)

\* runOptimization: railwayApi has no method optimize, so the call throws
\* inside the try and the handler ends in its catch.  No control of
\* FinalDashboard calls the handler; it is offered as the button of the
\* Dashboard component it comes from is.
runOptimization ==
    /\ mounted
    /\ ~dashboard.loading
    /\ ~dashboard.isOptimizing
    /\ dashboard.trains # 0
    /\ dashboard' = [dashboard EXCEPT !.error = CheckConnection,
                                      !.isOptimizing = FALSE]
    /\ UNCHANGED <<calls, emergencyTimeout, mounted, server>>
    /\ UNCHANGED backstage

\* The What-If tab: handleWhatIfScenario up to its await.
handleWhatIfScenario ==
    /\ mounted
    /\ ~dashboard.loading
    /\ dashboard.activeTab = "whatif"
    /\ Cardinality(calls) < MaxCalls
    /\ dashboard' = [dashboard EXCEPT !.loading = TRUE]
    /\ calls' = calls \cup {Call("handleWhatIfScenario", "none", FALSE)}
    /\ UNCHANGED <<emergencyTimeout, mounted, server>>
    /\ UNCHANGED backstage

\* handleWhatIfScenario after its await.
handleWhatIfScenarioReplied ==
    /\ mounted
    /\ \E c \in calls, reply \in Replies :
          /\ c.op = "handleWhatIfScenario"
          /\ dashboard' =
                IF reply.status = "success"
                THEN [Optimized(dashboard, c) EXCEPT !.activeTab = "overview",
                                                     !.loading = FALSE]
                ELSE [dashboard EXCEPT !.loading = FALSE]
          /\ calls' = calls \ {c}
    /\ UNCHANGED <<emergencyTimeout, mounted, server>>
    /\ UNCHANGED backstage

\* resetToOriginal, offered as the button 'Show Original' of the Dashboard
\* component it comes from is.
resetToOriginal ==
    /\ mounted
    /\ ~dashboard.loading
    /\ ~dashboard.isOptimizing
    /\ dashboard.isOptimized
    /\ dashboard' = [dashboard EXCEPT !.isOptimized = FALSE,
                                      !.optimizationResult = null,
                                      !.optimizedMovements = <<>>]
    /\ UNCHANGED <<calls, emergencyTimeout, mounted, server>>
    /\ UNCHANGED backstage

\* A navigation tab is clicked.
setActiveTab ==
    /\ mounted
    /\ ~dashboard.loading
    /\ \E tab \in Tabs \ {dashboard.activeTab} :
          dashboard' = [dashboard EXCEPT !.activeTab = tab]
    /\ UNCHANGED <<calls, emergencyTimeout, mounted, server>>
    /\ UNCHANGED backstage

\* The callback of the emergency timeout, 20 seconds after the mount.
emergencyTimeoutFires ==
    /\ mounted
    /\ emergencyTimeout = "set"
    /\ dashboard' = [dashboard EXCEPT !.loading = FALSE, !.error = TooLong]
    /\ emergencyTimeout' = "fired"
    /\ UNCHANGED <<calls, mounted, server>>
    /\ UNCHANGED backstage

\* The component is unmounted: the cleanup of the mount effect clears the
\* timeout, and the state updates of later replies have no effect.
unmount ==
    /\ mounted
    /\ mounted' = FALSE
    /\ emergencyTimeout' = IF emergencyTimeout = "set" THEN "cleared" ELSE emergencyTimeout
    /\ UNCHANGED <<dashboard, calls, server>>
    /\ UNCHANGED backstage

DashboardNext ==
    \/ loadScenariosReplied
    \/ loadScenarioData
    \/ loadScenarioDataReplied
    \/ runAdvancedOptimization
    \/ runAdvancedOptimizationReplied
    \/ runOptimization
    \/ handleWhatIfScenario
    \/ handleWhatIfScenarioReplied
    \/ resetToOriginal
    \/ setActiveTab
    \/ emergencyTimeoutFires
    \/ unmount

DashboardSpec == DashboardInit /\ [][DashboardNext]_vars

(***************************************************************************)
(* Live mode of FinalDashboard: the WebSocket effect.  It reads and writes *)
(* isSimulating and realTimeUpdates only, and is explored on the page as   *)
(* the initialization leaves it when the server answers.                   *)
(***************************************************************************)
LiveInit ==
    /\ BackendAtRest
    /\ metrics = NoMetrics
    /\ dashboard = ScenarioLoaded([InitialState EXCEPT !.scenarios = "listed"], "normal", 1)
    /\ calls = {}
    /\ emergencyTimeout = "set"
    /\ mounted = TRUE
    /\ server = [generated |-> 1, sent |-> 0]

\* The button 'Start Live Mode' / 'Stop Live Mode'; the effect opens the
\* socket, its cleanup closes it.
toggleSimulation ==
    /\ mounted
    /\ ~dashboard.loading
    /\ ~dashboard.isOptimizing
    /\ dashboard' = [dashboard EXCEPT !.isSimulating = ~@]
    /\ UNCHANGED <<calls, emergencyTimeout, mounted, server>>
    /\ UNCHANGED backstage

\* ws.onmessage: the server's next message, numbered as it is sent.
onmessage ==
    /\ mounted
    /\ dashboard.isSimulating
    /\ server.sent < MaxMessages
    /\ server' = [server EXCEPT !.sent = @ + 1]
    /\ dashboard' = [dashboard EXCEPT !.realTimeUpdates =
                        Append(slice(@, KeptUpdates), server.sent + 1)]
    /\ UNCHANGED <<calls, emergencyTimeout, mounted>>
    /\ UNCHANGED backstage

\* ws.onclose: the server has closed the socket.
onclose ==
    /\ mounted
    /\ dashboard.isSimulating
    /\ dashboard' = [dashboard EXCEPT !.isSimulating = FALSE]
    /\ UNCHANGED <<calls, emergencyTimeout, mounted, server>>
    /\ UNCHANGED backstage

LiveNext ==
    \/ toggleSimulation
    \/ onmessage
    \/ onclose
    \/ setActiveTab
    \/ emergencyTimeoutFires
    \/ unmount

LiveSpec == LiveInit /\ [][LiveNext]_vars

(***************************************************************************)
(* Properties.                                                             *)
(***************************************************************************)
Returned == pc = "returned"

\* The response carries an assignment.
HasAssignment == Returned /\ response.status \in {"optimal", "feasible"}

Records == IF HasAssignment THEN response.movements ELSE <<>>

\* The instant an ISO text of a record reads as.
fromisoformat(text) == [day |-> text[1], hour |-> text[2], minute |-> text[3]]

\* The departure offset a record reports: the minutes from the midnight of the
\* scheduled day to the optimized departure.
Offset(rec) ==
    (fromisoformat(rec.optimized_departure).day
        - fromisoformat(rec.scheduled_departure).day) * MinutesPerDay
      + fromisoformat(rec.optimized_departure).hour * MinutesPerHour
      + fromisoformat(rec.optimized_departure).minute

Apart(a, b, gap) == a + gap <= b \/ b + gap <= a

C2_Sequencing ==
    \A i, j \in 1..Len(Records) :
        (/\ Records[i].train_id = Records[j].train_id
         /\ SchedKey(fromisoformat(Records[i].scheduled_departure))
              < SchedKey(fromisoformat(Records[j].scheduled_departure)))
        => Offset(Records[j]) >= Offset(Records[i]) + 80

\* C2 witness: an assignment for a train whose two movements are scheduled less
\* than 80 minutes apart, the later one first in the input.
C2_Witness ==
    /\ HasAssignment
    /\ \E i, j \in 1..Len(Records) :
          /\ j < i
          /\ Records[i].train_id = Records[j].train_id
          /\ SchedKey(fromisoformat(Records[i].scheduled_departure))
               < SchedKey(fromisoformat(Records[j].scheduled_departure))
          /\ SchedKey(fromisoformat(Records[j].scheduled_departure))
               < SchedKey(fromisoformat(Records[i].scheduled_departure)) + 80

\* C3: in every response that carries an assignment, every platform lies in
\* 1..platforms of the movement's origin station and every departure offset in
\* 0..time_horizon_hours*60 - 30.
C3_Bounds ==
    \A i \in 1..Len(Records) :
        /\ Records[i].platform >= 1
        /\ Records[i].platform <= request.stations[Records[i].from_station]
        /\ Offset(Records[i]) >= 0
        /\ Offset(Records[i]) <= request.time_horizon_hours * 60 - 30

\* C3 witness: an assignment that uses the last platform of a station with more
\* than one and the last departure offset of the horizon.
C3_Witness ==
    /\ HasAssignment
    /\ \E i \in 1..Len(Records) :
          /\ Records[i].platform = request.stations[Records[i].from_station]
          /\ Records[i].platform > 1
          /\ Offset(Records[i]) = request.time_horizon_hours * 60 - 30

\* The constraints the model holds on the indicator of a pair of movements.
ConstraintsOfPair(pair) == { c \in model.constraints : c.lit.pair = pair }

\* Both movements of the pair on platform 1, the second 15 minutes after the first.
SeparatedOnOnePlatform(pair, c) ==
    IF c.op = "le" THEN HoldsOn(c, [k \in {pair[1], pair[2]} |-> IF k = pair[1] THEN 0 ELSE 15])
    ELSE HoldsOn(c, [k \in {pair[1], pair[2]} |-> 1])

\* Two movements of different trains leave a station with one platform, on a
\* horizon that has room for both.
TwoTrainsOnePlatform ==
    /\ Len(request.movements) = 2
    /\ request.movements[1].train_id # request.movements[2].train_id
    /\ request.movements[1].from_station = request.movements[2].from_station
    /\ FirstUnknownStation(request) = 0
    /\ FirstUnknownTrain(request) = 0
    /\ request.stations[request.movements[1].from_station] = 1
    /\ request.time_horizon_hours >= 1

\* C4 (as claimed): the constraints of a pair of movements at one station are
\* satisfied by the same platform with departures 15 minutes apart, under some
\* value of the pair's indicator; and two movements of different trains at a
\* one-platform station have a solution.
C4_OneDirectionSuffices ==
    pc = "built" =>
        /\ \A pair \in model.boolVars :
              \E b \in BOOLEAN :
                 \A c \in ConstraintsOfPair(pair) :
                    (c.lit.positive = b) => SeparatedOnOnePlatform(pair, c)
        /\ TwoTrainsOnePlatform => Solutions(model) # {}

\* C5 (as claimed): a FEASIBLE solver status is answered with the tag
\* 'feasible', and the tag 'optimal' only ever answers an OPTIMAL status.
C5_FeasibleTag ==
    Returned =>
        /\ solverStatus = "FEASIBLE" => response.status = "feasible"
        /\ response.status = "optimal" => solverStatus = "OPTIMAL"

\* C6: when the solver found no assignment the call returns the status
\* 'infeasible' and raises nothing; and a response has an objective value and
\* movement records exactly when its status is optimal or feasible.
C6_InfeasibleIsAStatus ==
    /\ (pc \in {"returned", "raised"} /\ solverStatus \in {"INFEASIBLE", "MODEL_INVALID", "UNKNOWN"})
         => (Returned /\ raised = "none" /\ response.status = "infeasible")
    /\ Returned =>
         /\ ("objective_value" \in response.keys) <=> (response.status \in {"optimal", "feasible"})
         /\ ("movements" \in response.keys) <=> (response.status \in {"optimal", "feasible"})

\* C6 witness: the solver proved that a request with movements has no solution,
\* and the response is the status alone.
C6_Witness ==
    /\ Returned
    /\ solverStatus = "INFEASIBLE"
    /\ Len(request.movements) > 0
    /\ response.keys = {"status", "message"}

\* Some movement names a station or a train the request does not have.
UnknownReference ==
    \E i \in 1..Len(request.movements) :
        \/ request.movements[i].from_station \notin DOMAIN request.stations
        \/ request.movements[i].train_id \notin DOMAIN request.trains

\* C7: a request with a movement of an unknown station or train ends in an
\* error raised before the solver is called, and gets no response.
C7_UnknownReferenceFails ==
    UnknownReference =>
        /\ pc \in {"received", "raised"}
        /\ pc = "raised" => raised # "none"
        /\ solverStatus = "NOT_RUN"
        /\ response.keys = {}

\* C7 witness: the error of a request whose stations all resolve and whose
\* second movement names an unknown train.
C7_Witness ==
    /\ pc = "raised"
    /\ Len(request.movements) = 2
    /\ request.movements[2].train_id \notin DOMAIN request.trains
    /\ \A i \in 1..2 : request.movements[i].from_station \in DOMAIN request.stations

\* A movement leaves a station that has no platform, or the horizon is not positive.
InvalidCapacity ==
    \/ request.time_horizon_hours <= 0
    \/ \E i \in 1..Len(request.movements) :
          /\ request.movements[i].from_station \in DOMAIN request.stations
          /\ request.stations[request.movements[i].from_station] = 0

\* C8 (as claimed): such a request never reaches the solver and is never
\* answered 'infeasible'.
C8_InvalidCapacityFails ==
    InvalidCapacity =>
        /\ solverStatus = "NOT_RUN"
        /\ ~ Returned

\* C9 (as claimed): a request that fails leaves self.model as it was.
C9_NoPartialModel == [][pc' = "raised" => model' = model]_vars

\* C10: in every response that carries an assignment, delay_minutes is the
\* departure offset minus hour*60 + minute of the scheduled departure.
C10_Delay ==
    \A i \in 1..Len(Records) :
        Records[i].delay_minutes
          = Offset(Records[i])
              - (request.movements[i].scheduled_departure.hour * 60
                   + request.movements[i].scheduled_departure.minute)

\* C10 witness: an assignment with a negative delay, for a movement that
\* departs earlier than scheduled.
C10_Witness ==
    /\ HasAssignment
    /\ \E i \in 1..Len(Records) :
          /\ Records[i].delay_minutes < 0
          /\ Offset(Records[i]) > 0

\* The sum, over the first k records, of the weight of the owning train's
\* priority class times the delay the record reports.
RECURSIVE WeightedDelays(_, _, _)
WeightedDelays(trains, records, k) ==
    IF k = 0 THEN 0
    ELSE WeightedDelays(trains, records, k - 1)
           + Weight(trains[records[k].train_id]) * records[k].delay_minutes

\* C11: the objective value of a response is the sum over its movements of the
\* weight of the owning train's priority class times the movement's delay, and
\* the weights are positive and strictly larger for HIGH than for MEDIUM and
\* for MEDIUM than for LOW.
C11_ObjectiveValue ==
    /\ HasAssignment =>
          response.objective_value
            = WeightedDelays(request.trains, Records, Len(Records))
    /\ Weight("HIGH") > Weight("MEDIUM")
    /\ Weight("MEDIUM") > Weight("LOW")
    /\ Weight("LOW") > 0

\* C11 witness: an assignment for movements of two trains of different
\* priority classes, neither departing as scheduled.
C11_Witness ==
    /\ HasAssignment
    /\ \E i, j \in 1..Len(Records) :
          /\ request.trains[Records[i].train_id] # request.trains[Records[j].train_id]
          /\ Records[i].delay_minutes # 0
          /\ Records[j].delay_minutes # 0
          /\ response.objective_value # 0

\* C12: a response that carries an assignment has one record per input
\* movement, in input order, and the k-th record has the train id, origin,
\* destination and scheduled departure (as ISO text) of the k-th movement.
C12_OneRecordPerMovement ==
    HasAssignment =>
        /\ Len(response.movements) = Len(request.movements)
        /\ \A k \in 1..Len(request.movements) :
              /\ response.movements[k].train_id = request.movements[k].train_id
              /\ response.movements[k].from_station = request.movements[k].from_station
              /\ response.movements[k].to_station = request.movements[k].to_station
              /\ response.movements[k].scheduled_departure
                    = isoformat(request.movements[k].scheduled_departure)

\* C12 witness: an assignment for two movements that differ in train, origin
\* and scheduled departure.
C12_Witness ==
    /\ HasAssignment
    /\ Len(request.movements) = 2
    /\ request.movements[1].train_id # request.movements[2].train_id
    /\ request.movements[1].from_station # request.movements[2].from_station
    /\ request.movements[1].scheduled_departure # request.movements[2].scheduled_departure

\* The number of movements of a train in the request.
MovementsOf(t) ==
    Cardinality({ i \in 1..Len(request.movements) : request.movements[i].train_id = t })

\* Some train has k >= 1 movements with 80*(k-1) > time_horizon_hours*60 - 30.
HorizonTooSmall ==
    \E i \in 1..Len(request.movements) :
        80 * (MovementsOf(request.movements[i].train_id) - 1)
            > request.time_horizon_hours * 60 - 30

\* C13: a request whose stations and trains resolve and whose horizon is too
\* small for the movements of some train is answered, and answered 'infeasible'.
C13_SmallHorizonInfeasible ==
    (HorizonTooSmall /\ ~ UnknownReference /\ pc \in {"returned", "raised"})
        => (Returned /\ response.status = "infeasible")

\* C13 witness: on a one-hour horizon, two movements of one train from two
\* stations that have platforms are proved to have no assignment.
C13_Witness ==
    /\ Returned
    /\ solverStatus = "INFEASIBLE"
    /\ request.time_horizon_hours = 1
    /\ Len(request.movements) = 2
    /\ request.movements[1].train_id = request.movements[2].train_id
    /\ request.movements[1].from_station # request.movements[2].from_station
    /\ \A i \in 1..2 : request.stations[request.movements[i].from_station] >= 1
    /\ response.status = "infeasible"

\* The scheduled departures (hour*60 + minute), with some platforms, satisfy
\* every bound, platform and sequencing constraint of the request's model.  The
\* platform hint of a movement is never read by the optimizer.
ScheduledIsSolution ==
    /\ pc \in {"built", "returned"}
    /\ Len(request.movements) > 0
    /\ \E sol \in Solutions(model) :
          \A i \in 1..Len(request.movements) :
              sol.departure_times[i] = scheduled_minutes(request.movements[i])

\* C14 (as claimed): a request whose schedule already satisfies every constraint
\* is answered with an assignment whose objective value is at most 0, the
\* objective value of the schedule itself.
C14_NoConflictNotWorse ==
    (Returned /\ ScheduledIsSolution)
        => (HasAssignment /\ response.objective_value <= 0)

\* The request with the priority class of train t replaced.
WithPriority(req, t, priority) == [req EXCEPT !.trains[t] = priority]

\* C15: when the solver proved the result of a request optimal, the delay of
\* every movement of a HIGH train is at most the delay the movement has in
\* every result the solver can prove optimal for the same request with that
\* train LOW.
C15_MonotonicWeighting ==
    (Returned /\ solverStatus = "OPTIMAL") =>
        \A t \in DOMAIN request.trains :
            request.trains[t] = "HIGH" =>
                \A low \in OptimalSolutions(BuiltModel(WithPriority(request, t, "LOW"))) :
                    \A i \in 1..Len(request.movements) :
                        request.movements[i].train_id = t =>
                            Records[i].delay_minutes
                              <= delay_minutes(request.movements[i], low.departure_times[i])

\* C15 witness: an optimal result for a movement of a HIGH train and a movement
\* of another train that leave the same station.
C15_Witness ==
    /\ Returned
    /\ solverStatus = "OPTIMAL"
    /\ \E i, j \in 1..Len(Records) :
          /\ request.trains[Records[i].train_id] = "HIGH"
          /\ Records[j].train_id # Records[i].train_id
          /\ Records[j].from_station = Records[i].from_station

\* The assignment the movement records of a reply report.
ReportedSolution(body) ==
    [departure_times |-> [i \in 1..Len(body.movements) |-> Offset(body.movements[i])],
     platform_assignments |-> [i \in 1..Len(body.movements) |-> body.movements[i].platform]]

\* The reply is the extraction of an assignment of sols, for the request's own
\* model m.
IsExtractionOf(e, m, sols, status) ==
    /\ "movements" \in e.body.keys
    /\ Len(e.body.movements) = Len(e.request.movements)
    /\ ReportedSolution(e.body) \in sols
    /\ e.body = extract_solution(e.request.movements, m, ReportedSolution(e.body), status)

\* The exchange is one a newly created optimizer, serving the request alone,
\* can end in: a solver status the request's own model allows, with the reply
\* that follows from it.
IsFreshOutcome(e) ==
    LET req == e.request
        m == BuiltModel(req)
    IN IF FirstUnknownStation(req) # 0 \/ FirstUnknownTrain(req) # 0
       THEN /\ e.solverStatus = "NOT_RUN"
            /\ e.status_code = 500
            /\ e.body = FailureBody(req)
       ELSE /\ e.status_code = 200
            /\ CASE e.solverStatus = "OPTIMAL" ->
                      IsExtractionOf(e, m, OptimalSolutions(m), "OPTIMAL")
                 [] e.solverStatus = "FEASIBLE" ->
                      IsExtractionOf(e, m, Solutions(m), "FEASIBLE")
                 [] e.solverStatus = "INFEASIBLE" ->
                      Solutions(m) = {} /\ e.body = NoSolutionResponse
                 [] e.solverStatus = "MODEL_INVALID" ->
                      HasEmptyDomain(m) /\ e.body = NoSolutionResponse
                 [] e.solverStatus = "UNKNOWN" -> e.body = NoSolutionResponse
                 [] OTHER -> FALSE

\* The exchange just completed: every exchange is the last one of served in
\* the state its reply is sent in.
JustServed == served[Len(served)]

\* A request is in the service at the same time as the one just served: the
\* one just served had to wait, or a request waits now.
Overlapped == JustServed.waited \/ pending # <<>>

C17_NoStateAcrossRequests ==
    pc = "replied" => IsFreshOutcome(JustServed)

\* C17 witness: a request that arrived after an earlier, different request
\* ended in an error, and was answered with an assignment.
C17_Witness ==
    /\ Len(served) = 2
    /\ ~ served[2].waited
    /\ served[1].status_code = 500
    /\ served[2].status_code = 200
    /\ "movements" \in served[2].body.keys

\* C18 (as claimed): two runs on the same request return the same response.
C18_Deterministic ==
    \A j, k \in 1..Len(served) :
        served[j].request = served[k].request => served[j].body = served[k].body

\* C19: a response has movement records only if the solver reported OPTIMAL or
\* FEASIBLE, and no call ends in an extraction error.
C19_ExtractionAfterSolution ==
    /\ ("movements" \in response.keys) => solverStatus \in {"OPTIMAL", "FEASIBLE"}
    /\ solverStatus \notin {"OPTIMAL", "FEASIBLE"} => raised \in {"none", "KeyError"}
    /\ solverStatus # "NOT_RUN" => raised = "none"

\* C19 witness: the solution of a model the solver stopped on as FEASIBLE is
\* extracted.
C19_Witness ==
    /\ Returned
    /\ solverStatus = "FEASIBLE"
    /\ Len(request.movements) > 0
    /\ Len(response.movements) = Len(request.movements)

\* C20: a request whose optimization raised is answered HTTP 500 with the
\* detail 'Optimization failed' and no status; an HTTP 500 never carries a
\* status; and a request the solver found no solution for is answered HTTP
\* 200 with the status 'infeasible'.
C20_FaultIsNotInfeasible ==
    \A k \in 1..Len(served) :
        /\ (FirstUnknownStation(served[k].request) # 0
              \/ FirstUnknownTrain(served[k].request) # 0)
             => /\ served[k].status_code = 500
                /\ served[k].body.keys = {"detail"}
                /\ served[k].body.detail[1] = "Optimization failed"
        /\ served[k].status_code = 500 => "status" \notin served[k].body.keys
        /\ served[k].solverStatus \in {"INFEASIBLE", "MODEL_INVALID", "UNKNOWN"}
             => /\ served[k].status_code = 200
                /\ served[k].body.status = "infeasible"

\* C20 witness: the service has answered one request with HTTP 500 and one,
\* proved to have no solution, with the status 'infeasible'.
C20_Witness ==
    \E j, k \in 1..Len(served) :
        /\ served[j].status_code = 500
        /\ served[k].solverStatus = "INFEASIBLE"
        /\ served[k].status_code = 200
        /\ served[k].body.status = "infeasible"

\* The call has ended: it returned a dict or raised.
Done == pc \in {"returned", "raised"}

\* C21: every request ends; the solver is run at most once, and only straight
\* before the return; the end is one outcome, a response with a status or an
\* error, never both; and an assignment the solver held at the deadline
\* (FEASIBLE) is returned.
C21_EndsInOneOutcome ==
    /\ <>Done
    /\ [][solverStatus' # solverStatus
            => (solverStatus = "NOT_RUN" /\ pc' = "returned")]_vars
    /\ [](Done =>
            \/ (pc = "raised" /\ raised # "none" /\ response.keys = {})
            \/ (pc = "returned" /\ raised = "none"
                   /\ response.status \in {"optimal", "feasible", "infeasible"}))
    /\ [](solverStatus = "FEASIBLE" =>
             (HasAssignment /\ Len(response.movements) = Len(request.movements)))

\* C21 witness: the deadline was reached with an assignment that is not optimal,
\* and the assignment is returned.
C21_Witness ==
    /\ Done
    /\ solverStatus = "FEASIBLE"
    /\ HasAssignment
    /\ \E i \in 1..Len(Records) : Offset(Records[i]) > 0

\* C22: of two movements of one train with the same scheduled departure, the
\* one later in the input departs at least 80 minutes after the other.
C22_StableTies ==
    \A i, j \in 1..Len(Records) :
        (/\ i < j
         /\ Records[i].train_id = Records[j].train_id
         /\ Records[i].scheduled_departure = Records[j].scheduled_departure)
        => Offset(Records[j]) >= Offset(Records[i]) + 80

\* C22 witness: an assignment for two movements of one train that have the same
\* scheduled departure.
C22_Witness ==
    /\ HasAssignment
    /\ \E i, j \in 1..Len(Records) :
          /\ i < j
          /\ Records[i].train_id = Records[j].train_id
          /\ Records[i].scheduled_departure = Records[j].scheduled_departure

\* Some station is the origin of more movements than it has platforms.
MoreMovementsThanPlatforms ==
    \E s \in DOMAIN request.stations :
        Cardinality({ i \in 1..Len(request.movements) :
                        request.movements[i].from_station = s })
            > request.stations[s]

RankInTrain(i) ==
    1 + Cardinality({ j \in 1..Len(request.movements) :
          /\ request.movements[j].train_id = request.movements[i].train_id
          /\ \/ SchedKey(request.movements[j].scheduled_departure)
                   < SchedKey(request.movements[i].scheduled_departure)
             \/ (SchedKey(request.movements[j].scheduled_departure)
                    = SchedKey(request.movements[i].scheduled_departure) /\ j < i) })

\* C26: in every assignment the solver proved optimal, the k-th movement of a
\* train departs at offset 80*(k-1), whatever its scheduled departure.
C26_OptimalDepartures ==
    (Returned /\ solverStatus = "OPTIMAL") =>
        \A i \in 1..Len(Records) : Offset(Records[i]) = 80 * (RankInTrain(i) - 1)

\* C26 witness: an optimal assignment whose second movement of a train departs
\* at offset 80.
C26_Witness ==
    /\ Returned
    /\ solverStatus = "OPTIMAL"
    /\ \E i \in 1..Len(Records) : RankInTrain(i) = 2 /\ Offset(Records[i]) = 80

\* C24: calculatePlatformConflicts counts a platform-capacity conflict (more
\* movements departing a station in one scheduled hour than the station has
\* platforms) at most once for a station and an hour.
C24_CapacityOncePerHour ==
    metrics.initial_conflicts # NotComputed =>
        \A stationId \in StationIds, hour \in {8, 9} :
            capacityConflicts(metrics.movements, metrics.stations, stationId, hour) <= 1

\* C23: in FinalDashboard, realTimeUpdates never holds more than 10 updates,
\* however many messages the socket delivers in live mode.
C23_AtMostTenUpdates == Len(dashboard.realTimeUpdates) <= 10

\* C27: whenever isOptimized is true, optimizedMovements were computed from
\* the trains, stations and movements now in state: no reply to an
\* optimization started on earlier data marks the data loaded since as
\* optimized.
C27_OptimizedFromCurrentData ==
    dashboard.isOptimized =>
        /\ dashboard.optimizedMovements = <<dashboard.movements>>
        /\ dashboard.trains = dashboard.movements
        /\ dashboard.stations = dashboard.movements

\* C28: when the engine answers an optimization with an accepted assignment
\* (status optimal or feasible, with the movements), the dashboard enters the
\* optimized state with the movements of the answer and sets no error.
C28_AcceptedAnswerOptimizes ==
    [][\A c \in calls, reply \in Replies :
          (/\ reply.ok
           /\ reply.status \in {"optimal", "feasible"}
           /\ AdvancedReplied(c, reply))
          => /\ dashboard'.isOptimized
             /\ dashboard'.optimizedMovements = <<c.movements>>
             /\ dashboard'.error = <<>>]_vars

\* An operation of the page has completed in this step: a handler that
\* awaited a reply has run to its end, or a handler without await has run.
OperationCompleted ==
    \/ calls' \subseteq calls /\ calls' # calls
    \/ runOptimization
    \/ resetToOriginal

\* C29: after every completed operation of FinalDashboard, isOptimized is
\* true if and only if optimizationResult is non-null, and isOptimizing is
\* false.
C29_AfterEveryOperation ==
    [][OperationCompleted =>
          /\ dashboard'.isOptimized <=> dashboard'.optimizationResult # null
          /\ ~dashboard'.isOptimizing]_vars

\* C29, amended: isOptimized is true if and only if optimizationResult is
\* non-null, and isOptimizing is true exactly while a runAdvancedOptimization
\* awaits its reply: it is false after a completed optimization, and true
\* after another operation that completes meanwhile.
C29_Amended ==
    /\ dashboard.isOptimized <=> dashboard.optimizationResult # null
    /\ dashboard.isOptimizing <=> \E c \in calls : c.op = "runAdvancedOptimization"

\* An optimization has completed and left the page optimized.
C29_Witness ==
    /\ dashboard.isOptimized
    /\ dashboard.optimizationResult # null
    /\ ~dashboard.isOptimizing
    /\ calls = {}
    /\ mounted

\* C30: the emergency timeout sets its error only if the initialization has
\* not finished when it fires; once loadScenarios has completed the timeout
\* sets no error.
C30_TimeoutOnlyWhileInitializing ==
    [][emergencyTimeoutFires => \E c \in calls : c.initial]_vars

====
